---- MODULE Spec2Model ----
(***************************************************************************)
(* Model of src/moby.go: one collection round of the exporter.             *)
(*                                                                         *)
(*   asyncRetrieveMetrics      the aggregator: creates the Docker client,  *)
(*                             lists the running containers, starts one    *)
(*                             goroutine per container and receives from   *)
(*                             the shared channel.                         *)
(*   retrieveContainerMetrics  the per-container collector: opens the      *)
(*                             stats stream, scans it line by line,        *)
(*                             unmarshals each line and sends records on   *)
(*                             the channel.                                *)
(*                                                                         *)
(* The Docker daemon is the environment: whether the client can be         *)
(* created, whether and how many containers are listed, whether a stats    *)
(* stream opens, and what every Scan of a stream yields are drawn          *)
(* nondeterministically when the code makes the call.                      *)
(*                                                                         *)
(* A write through a nil *ContainerMetrics is a Go run-time panic in a     *)
(* goroutine without recover: the whole process stops (panicked).          *)
(***************************************************************************)
EXTENDS Integers, Sequences, FiniteSets, TLC

\* Bounds of the model.
MaxContainers == 2      \* most containers the daemon lists
MaxLines == 2           \* most lines one stats stream yields before it ends

VARIABLES
    pc,                 \* position of asyncRetrieveMetrics
    cli,                \* the Docker client: "none", "open", "closed"
    closes,             \* number of cli.Close() calls so far
    err,                \* local err of asyncRetrieveMetrics
    errs,               \* local errs of asyncRetrieveMetrics
    containers,         \* the listing: sequence of container numbers
    ch,                 \* buffered channel contents, capacity len(containers)
    ContainerMetrics,   \* local result slice of asyncRetrieveMetrics
    launched,           \* how many containers the range loop has passed
    ret,                \* the returned pair, once pc = "returned"
    exitPath,           \* which return statement was executed
    received,           \* number of values received from ch so far
    panicked,           \* a goroutine panicked: the process is gone
    cpc,                \* position of each retrieveContainerMetrics call
    cerr,               \* local err of each retrieveContainerMetrics call
    cptr,               \* local c of each call: the pointer about to be sent
    opened,             \* per container: outcome of cli.ContainerStats
    lines,              \* per container: kinds of the lines scanned so far
    ended,              \* per container: how the scan loop ended
    sends               \* per container: number of completed channel sends

aggVars == <<pc, cli, closes, err, errs, containers, ch, ContainerMetrics, launched,
             ret, exitPath, received>>
colVars == <<cpc, cerr, cptr, opened, lines, ended, sends>>
vars == <<pc, cli, closes, err, errs, containers, ch, ContainerMetrics, launched,
          ret, exitPath, received, panicked,
          cpc, cerr, cptr, opened, lines, ended, sends>>

CIds == 1..MaxContainers

----------------------------------------------------------------------------
\* Values

NoErr == <<>>                       \* the nil error
EmptyStr == <<>>                    \* the zero string
ID(i) == <<"id", i>>                \* c.ID of the i-th listed container
Name(i) == <<"name", i>>            \* c.Names[0][1:] of the i-th container

\* A Go slice: nil or not, and its elements.
NilSlice == [isNil |-> TRUE, elems |-> <<>>]
EmptySlice == [isNil |-> FALSE, elems |-> <<>>]
\* Variant that puts the new element in front (used to validate C18).
appendFront(s, x) == [isNil |-> FALSE, elems |-> <<x>> \o s.elems]

append(s, x) == [isNil |-> FALSE, elems |-> Append(s.elems, x)]
len(s) == Len(s.elems)

\* errors.Wrap / errors.Wrapf of github.com/pkg/errors: nil stays nil.
Wrap(e, msg) == IF e = NoErr THEN NoErr ELSE <<msg>> \o e
Wrapf(e, msg) == Wrap(e, msg)

\* A *ContainerMetrics: nil (alloc = FALSE) or pointing to a struct.
\* src and line tell which collector built the struct from which line.
NilPtr == [alloc |-> FALSE, ID |-> EmptyStr, Name |-> EmptyStr,
           Error |-> NoErr, src |-> 0, line |-> 0]
NewRecord(i, n) == [alloc |-> TRUE, ID |-> EmptyStr, Name |-> EmptyStr,
                    Error |-> NoErr, src |-> i, line |-> n]

\* Kinds of line a stats stream can yield:
\*   "ok"      a JSON object that fits ContainerMetrics
\*   "type"    valid JSON whose values do not fit the struct's field types
\*   "syntax"  not valid JSON
\*   "null"    the JSON literal null
LineKinds == {"ok", "type", "syntax", "null"}

\* json.Unmarshal(s.Bytes(), &c) with c a nil *ContainerMetrics.
\* Invalid JSON is rejected before anything is stored; null leaves the
\* pointer nil and is no error; any other value allocates the struct, and a
\* value of the wrong type is then reported as an error.
Unmarshal(kind, i, n) ==
    CASE kind = "ok"     -> [c |-> NewRecord(i, n), err |-> NoErr]
      [] kind = "type"   -> [c |-> NewRecord(i, n), err |-> <<"UnmarshalTypeError">>]
      [] kind = "syntax" -> [c |-> NilPtr, err |-> <<"SyntaxError">>]
      [] kind = "null"   -> [c |-> NilPtr, err |-> NoErr]

----------------------------------------------------------------------------
Init ==
    /\ pc = "newClient"
    /\ cli = "none"
    /\ closes = 0
    /\ err = NoErr
    /\ errs = NilSlice
    /\ containers = <<>>
    /\ ch = <<>>
    /\ ContainerMetrics = NilSlice
    /\ launched = 0
    /\ ret = [results |-> NilSlice, errs |-> NilSlice]
    /\ exitPath = "none"
    /\ received = 0
    /\ panicked = FALSE
    /\ cpc = [i \in CIds |-> "idle"]
    /\ cerr = [i \in CIds |-> NoErr]
    /\ cptr = [i \in CIds |-> NilPtr]
    /\ opened = [i \in CIds |-> "no"]
    /\ lines = [i \in CIds |-> <<>>]
    /\ ended = [i \in CIds |-> "no"]
    /\ sends = [i \in CIds |-> 0]

----------------------------------------------------------------------------
\* asyncRetrieveMetrics

\* Variant of the return without the deferred close (used to validate C11).
ReturnNoClose(results, es, path) ==
    /\ ret' = [results |-> results, errs |-> es]
    /\ pc' = "returned"
    /\ exitPath' = path
    /\ UNCHANGED <<cli, closes>>

\* A return statement: the pair is handed to the caller and the deferred
\* cli.Close() runs if the defer statement was reached.
Return(results, es, path) ==
    /\ ret' = [results |-> results, errs |-> es]
    /\ pc' = "returned"
    /\ exitPath' = path
    /\ cli' = IF cli = "open" THEN "closed" ELSE cli
    /\ closes' = IF cli = "open" THEN closes + 1 ELSE closes

\* cli, err := client.NewEnvClient() fails.
NewEnvClientFail ==
    /\ ~panicked /\ pc = "newClient"
    /\ LET e == <<"ClientError">>
           es == append(errs, Wrapf(e, "Error creating Docker client")) IN
         /\ err' = e
         /\ errs' = es
         /\ Return(NilSlice, es, "client")
    /\ UNCHANGED <<containers, ch, ContainerMetrics, launched, received,
                   panicked>>
    /\ UNCHANGED colVars

\* cli, err := client.NewEnvClient() succeeds; defer cli.Close().
NewEnvClientOk ==
    /\ ~panicked /\ pc = "newClient"
    /\ err' = NoErr
    /\ cli' = "open"
    /\ pc' = "list"
    /\ UNCHANGED <<closes, errs, containers, ch, ContainerMetrics, launched,
                   ret, exitPath, received, panicked>>
    /\ UNCHANGED colVars

\* Variant of the listing failure without the return statement: the code
\* falls through to the empty-listing check (used to validate C4).
ContainerListFailNoReturn ==
    /\ ~panicked /\ pc = "list"
    /\ LET e == <<"ListError">>
           es == append(errs, Wrap(e, "Error obtaining container listing"))
           es2 == append(es, Wrap(e, "No Containers returned from Docker socket")) IN
         /\ err' = e
         /\ errs' = es2
         /\ Return(EmptySlice, es2, "empty")
    /\ UNCHANGED <<containers, ch, ContainerMetrics, launched, received,
                   panicked>>
    /\ UNCHANGED colVars

\* containers, err := cli.ContainerList(...) fails.
ContainerListFail ==
    /\ ~panicked /\ pc = "list"
    /\ LET e == <<"ListError">>
           es == append(errs, Wrap(e, "Error obtaining container listing")) IN
         /\ err' = e
         /\ errs' = es
         /\ Return(NilSlice, es, "list")
    /\ UNCHANGED <<containers, ch, ContainerMetrics, launched, received,
                   panicked>>
    /\ UNCHANGED colVars

\* The diagnostic appended when the listing is empty: err is the error of
\* the ContainerList call that has just succeeded.
NoContainersError(e) == Wrap(e, "No Containers returned from Docker socket")

\* containers, err := cli.ContainerList(...) succeeds with k containers;
\* the channel and the result slice are made; an empty listing returns.
ContainerListOk(k) ==
    /\ ~panicked /\ pc = "list"
    /\ err' = NoErr
    /\ containers' = [j \in 1..k |-> j]
    /\ ch' = <<>>
    /\ ContainerMetrics' = EmptySlice
    /\ IF k = 0
       THEN LET es == append(errs, NoContainersError(NoErr)) IN
              /\ errs' = es
              /\ Return(EmptySlice, es, "empty")
       ELSE /\ pc' = "fanout"
            /\ UNCHANGED <<errs, ret, exitPath, cli, closes>>
    /\ UNCHANGED <<launched, received, panicked>>
    /\ UNCHANGED colVars

\* One iteration of the range loop: go func(...){ retrieveContainerMetrics }.
Launch ==
    /\ ~panicked /\ pc = "fanout"
    /\ launched < Len(containers)
    /\ launched' = launched + 1
    /\ cpc' = [cpc EXCEPT ![containers[launched + 1]] = "open"]
    /\ pc' = IF launched + 1 = Len(containers) THEN "recv" ELSE "fanout"
    /\ UNCHANGED <<cli, closes, err, errs, containers, ch, ContainerMetrics,
                   ret, exitPath, received, panicked>>
    /\ UNCHANGED <<cerr, cptr, opened, lines, ended, sends>>

\* Off-by-one variant of the loop test (used to validate C1).
FanInDoneOffByOne(rs, cs) == len(rs) + 1 >= Len(cs)

\* The test that ends the fan-in loop.
FanInDone(rs, cs) == len(rs) = Len(cs)

\* Variant returning the collected errors (used to validate C20).
FanInErrorsCollected(es) == es

\* The error collection of "return ContainerMetrics, nil".
FanInErrors(es) == NilSlice

\* Variant of the loop body without the break after recording an error: the
\* record falls through to the append (used to validate C12).
ReceiveNoBreak ==
    /\ ~panicked /\ pc = "recv"
    /\ ch # <<>>
    /\ LET r == Head(ch)
           rs == append(ContainerMetrics, r) IN
         /\ ch' = Tail(ch)
         /\ received' = received + 1
         /\ UNCHANGED panicked
         /\ errs' = IF r.Error # NoErr
                    THEN append(errs, Wrapf(err, "Error processing stats"))
                    ELSE errs
         /\ ContainerMetrics' = rs
         /\ IF FanInDone(rs, containers)
            THEN Return(rs, FanInErrors(errs), "fanin")
            ELSE UNCHANGED <<pc, cli, closes, ret, exitPath>>
    /\ UNCHANGED <<err, containers, launched>>
    /\ UNCHANGED colVars

\* case r := <-ch: one iteration of the for/select loop.
Receive ==
    /\ ~panicked /\ pc = "recv"
    /\ ch # <<>>
    /\ LET r == Head(ch) IN
         /\ ch' = Tail(ch)
         /\ received' = received + 1
         /\ IF ~r.alloc
            THEN /\ panicked' = TRUE
                 /\ UNCHANGED <<pc, cli, closes, errs, ContainerMetrics, ret,
                                exitPath>>
            ELSE /\ UNCHANGED panicked
                 /\ IF r.Error # NoErr
                    THEN /\ errs' = append(errs,
                                       Wrapf(err, "Error processing stats"))
                         /\ UNCHANGED <<pc, cli, closes, ContainerMetrics,
                                        ret, exitPath>>
                    ELSE LET rs == append(ContainerMetrics, r) IN
                           /\ ContainerMetrics' = rs
                           /\ UNCHANGED errs
                           /\ IF FanInDone(rs, containers)
                              THEN Return(rs, FanInErrors(errs), "fanin")
                              ELSE UNCHANGED <<pc, cli, closes, ret, exitPath>>
    /\ UNCHANGED <<err, containers, launched>>
    /\ UNCHANGED colVars

----------------------------------------------------------------------------
\* retrieveContainerMetrics(cli, id, name, ch), one call per container i

\* var cm *ContainerMetrics
cm == NilPtr

\* The goroutine dereferences a nil pointer: run-time panic, process exits.
Panic(i) ==
    /\ panicked' = TRUE
    /\ cpc' = [cpc EXCEPT ![i] = "panic"]
    /\ UNCHANGED cptr

\* p.Error = e; ch <- p, to be followed by the position after.
SetErrorAndSend(i, p, e, sendpc) ==
    IF p.alloc
    THEN /\ cptr' = [cptr EXCEPT ![i] = [p EXCEPT !.Error = e]]
         /\ cpc' = [cpc EXCEPT ![i] = sendpc]
         /\ UNCHANGED panicked
    ELSE Panic(i)

\* stats, err := cli.ContainerStats(...) fails: cm.Error = ...; ch <- cm.
ContainerStatsFail(i) ==
    /\ ~panicked /\ cpc[i] = "open"
    /\ LET e == <<"StatsError">> IN
         /\ cerr' = [cerr EXCEPT ![i] = e]
         /\ opened' = [opened EXCEPT ![i] = "fail"]
         /\ SetErrorAndSend(i, cm,
                Wrapf(e, "Error obtaining container stats"), "sendLast")
    /\ UNCHANGED <<lines, ended, sends>>
    /\ UNCHANGED aggVars

\* stats, err := cli.ContainerStats(...) succeeds; s := bufio.NewScanner.
ContainerStatsOk(i) ==
    /\ ~panicked /\ cpc[i] = "open"
    /\ cerr' = [cerr EXCEPT ![i] = NoErr]
    /\ opened' = [opened EXCEPT ![i] = "ok"]
    /\ cpc' = [cpc EXCEPT ![i] = "scan"]
    /\ UNCHANGED <<cptr, lines, ended, sends, panicked>>
    /\ UNCHANGED aggVars

\* Variant that leaves the name unset (used to validate C17).
StampIdentityNoName(p, i) == [p EXCEPT !.ID = ID(i)]

\* c.ID = id; c.Name = name
StampIdentity(p, i) == [p EXCEPT !.ID = ID(i), !.Name = Name(i)]

\* s.Scan() yields a line of the given kind; the loop body up to the send.
ScanLine(i, kind) ==
    /\ ~panicked /\ cpc[i] = "scan"
    /\ Len(lines[i]) < MaxLines
    /\ lines' = [lines EXCEPT ![i] = Append(@, kind)]
    /\ LET u == Unmarshal(kind, i, Len(lines[i]) + 1) IN
         IF u.err # NoErr
         THEN SetErrorAndSend(i, u.c,
                  Wrapf(u.err, "Could not unmarshal the response"), "sendLine")
         ELSE IF u.c.alloc
              THEN /\ cptr' = [cptr EXCEPT ![i] =
                                 StampIdentity(u.c, i)]
                   /\ cpc' = [cpc EXCEPT ![i] = "sendLine"]
                   /\ UNCHANGED panicked
              ELSE Panic(i)
    /\ UNCHANGED <<cerr, opened, ended, sends>>
    /\ UNCHANGED aggVars

\* s.Scan() returns false at the end of the stream; s.Err() == nil.
ScanEOF(i) ==
    /\ ~panicked /\ cpc[i] = "scan"
    /\ ended' = [ended EXCEPT ![i] = "eof"]
    /\ cpc' = [cpc EXCEPT ![i] = "done"]
    /\ UNCHANGED <<cerr, cptr, opened, lines, sends, panicked>>
    /\ UNCHANGED aggVars

\* s.Scan() returns false on a read error; s.Err() != nil:
\* cm.Error = errors.Wrapf(err, ...) with the err of ContainerStats; ch <- cm.
ScanError(i) ==
    /\ ~panicked /\ cpc[i] = "scan"
    /\ ended' = [ended EXCEPT ![i] = "readerr"]
    /\ SetErrorAndSend(i, cm,
           Wrapf(cerr[i], "Error handling Stats.body from Docker engine"),
           "sendLast")
    /\ UNCHANGED <<cerr, opened, lines, sends>>
    /\ UNCHANGED aggVars

\* Variant with one buffer slot fewer (used to validate C13).
ChanCapOneLess(cs) == Len(cs) - 1

\* ch := make(chan *ContainerMetrics, len(containers))
ChanCap(cs) == Len(cs)

\* ch <- c (or ch <- cm): blocks while the buffer is full.
Send(i) ==
    /\ ~panicked /\ cpc[i] \in {"sendLine", "sendLast"}
    /\ Len(ch) < ChanCap(containers)
    /\ ch' = Append(ch, cptr[i])
    /\ sends' = [sends EXCEPT ![i] = @ + 1]
    /\ cpc' = [cpc EXCEPT ![i] = IF cpc[i] = "sendLine" THEN "scan" ELSE "done"]
    /\ UNCHANGED <<cerr, cptr, opened, lines, ended, panicked>>
    /\ UNCHANGED <<pc, cli, closes, err, errs, containers, ContainerMetrics,
                   launched, ret, exitPath, received>>

----------------------------------------------------------------------------
Next ==
    \/ NewEnvClientFail
    \/ NewEnvClientOk
    \/ ContainerListFail
    \/ \E k \in 0..MaxContainers : ContainerListOk(k)
    \/ Launch
    \/ Receive
    \/ \E i \in CIds : ContainerStatsFail(i)
    \/ \E i \in CIds : ContainerStatsOk(i)
    \/ \E i \in CIds : \E kind \in LineKinds : ScanLine(i, kind)
    \/ \E i \in CIds : ScanEOF(i)
    \/ \E i \in CIds : ScanError(i)
    \/ \E i \in CIds : Send(i)

Spec == Init /\ [][Next]_vars

\* The Go scheduler runs every runnable goroutine, and the daemon answers
\* every request: a step that stays possible is eventually taken.
FairSpec ==
    /\ Spec
    /\ WF_vars(NewEnvClientFail \/ NewEnvClientOk)
    /\ WF_vars(ContainerListFail \/ \E k \in 0..MaxContainers : ContainerListOk(k))
    /\ WF_vars(Launch)
    /\ WF_vars(Receive)
    /\ \A i \in CIds :
         /\ WF_vars(ContainerStatsFail(i) \/ ContainerStatsOk(i))
         /\ WF_vars(ScanEOF(i) \/ ScanError(i)
                    \/ \E kind \in LineKinds : ScanLine(i, kind))
         /\ WF_vars(Send(i))

----------------------------------------------------------------------------
\* Vocabulary of the properties

K == Len(containers)
Discovered == 1..K

ReturnedAfterFanOut == pc = "returned" /\ exitPath = "fanin"

\* Container i's stream opened, yielded exactly one clean sample and ended.
CleanSingle(i) ==
    opened[i] = "ok" /\ lines[i] = <<"ok">> /\ ended[i] = "eof"

\* The returned result collection holds a record of container i.
HasRecord(i) ==
    \E n \in 1..len(ret.results) : ret.results.elems[n].ID = ID(i)

\* Collector i can take no further step.
CollectorStopped(i) ==
    \/ panicked
    \/ cpc[i] \in {"idle", "done", "panic"}
    \/ cpc[i] \in {"sendLine", "sendLast"} /\ Len(ch) >= ChanCap(containers)

\* Nothing can take a further step: the round is as far as it will get.
Stopped ==
    /\ \A i \in CIds : CollectorStopped(i)
    /\ \/ panicked
       \/ pc = "returned"
       \/ pc = "recv" /\ ch = <<>>

----------------------------------------------------------------------------
\* C1: in a round where K > 0 containers are discovered and every stream
\* opens, yields exactly one clean sample and ends, nothing panics, no
\* record is lost on the way, and the round returns exactly K records, one
\* per container, with an empty error collection.
C1_CleanRound ==
    (K > 0 /\ \A i \in Discovered : CleanSingle(i)) =>
        /\ ~panicked
        /\ pc \in {"recv", "returned"}
        /\ pc = "recv" => Len(ch) + len(ContainerMetrics) = K
        /\ pc = "returned" =>
             /\ exitPath = "fanin"
             /\ len(ret.results) = K
             /\ \A i \in Discovered : HasRecord(i)
             /\ \A n \in 1..K : ret.results.elems[n].Error = NoErr
             /\ len(ret.errs) = 0

C1_Witness ==
    /\ ReturnedAfterFanOut
    /\ K >= 2
    /\ \A i \in Discovered : CleanSingle(i)

\* C2 (as claimed): once a round in which exactly one stream-open failed
\* and every other stream yielded one clean sample has run as far as it
\* will, it has returned K-1 records, none of the failing container, and
\* exactly one error entry.
C2_OneOpenFailure ==
    \A f \in Discovered :
        ( /\ Stopped
          /\ opened[f] = "fail"
          /\ \A i \in Discovered \ {f} : CleanSingle(i) )
        => /\ ~panicked
           /\ pc = "returned"
           /\ len(ret.results) = K - 1
           /\ ~HasRecord(f)
           /\ len(ret.errs) = 1

\* C3 (as claimed): every round that discovered K > 0 containers eventually
\* returns to the caller.
C3_RoundReturns == (K > 0) ~> (pc = "returned")

\* C4: when creating the client or listing the containers fails, the round
\* has returned a nil result collection and exactly one (non-nil) error, no
\* collector was launched and no stats stream was opened.
C4_DiscoveryFailure ==
    (err # NoErr) =>
        /\ pc = "returned"
        /\ ret.results = NilSlice
        /\ len(ret.errs) = 1
        /\ ret.errs.elems[1] # NoErr
        /\ launched = 0
        /\ \A i \in CIds : cpc[i] = "idle" /\ opened[i] = "no"
        /\ received = 0

C4_Witness ==
    /\ pc = "returned"
    /\ err = <<"ListError">>
    /\ cli = "closed"

\* C5 (as claimed): a round whose listing succeeds with 0 containers returns
\* an empty non-nil result collection and an error collection of exactly one
\* diagnostic entry, launches no collector and receives nothing.
C5_EmptyListing ==
    (pc = "returned" /\ exitPath = "empty") =>
        /\ ret.results = EmptySlice
        /\ len(ret.errs) = 1
        /\ ret.errs.elems[1] # NoErr
        /\ launched = 0
        /\ received = 0

\* C6 (as claimed): when a round returns after fan-out, the discovered
\* containers without a record in the result collection are covered by
\* entries of the returned error collection.
C6_NoSilentDrop ==
    ReturnedAfterFanOut =>
        Cardinality({i \in Discovered : ~HasRecord(i)}) <= len(ret.errs)

\* C7 (as claimed): the result collection never holds two records with the
\* same container ID.
C7_OneRecordPerContainer ==
    \A m, n \in 1..len(ContainerMetrics) :
        m # n => ContainerMetrics.elems[m].ID # ContainerMetrics.elems[n].ID

\* C8 (as claimed): a call of retrieveContainerMetrics that has returned has
\* sent on the channel at least once.
C8_AtLeastOneSend ==
    \A i \in CIds : cpc[i] = "done" => sends[i] >= 1

\* C9 (as claimed): the fan-in loop has ended exactly when the number of
\* values received from the channel equals the number of containers.
C9_EndsAtKMessages ==
    /\ ReturnedAfterFanOut => received = K
    /\ pc = "recv" => received < K

\* C10 (as claimed): once a round has returned after fan-out and its
\* collectors have run, without a panic, as far as they can, the channel is
\* empty and every launched collector has finished.
C10_FullyDrained ==
    (ReturnedAfterFanOut /\ ~panicked /\ \A i \in CIds : CollectorStopped(i)) =>
        /\ ch = <<>>
        /\ \A i \in Discovered : cpc[i] = "done"

\* C11: one client is held from its creation to the return, and every
\* return after the client was created (listing failure, empty listing,
\* end of fan-in) has closed it exactly once; it is never closed twice, and
\* a round that failed to create the client has closed nothing.
C11_ClientReleasedOnce ==
    /\ closes <= 1
    /\ pc \in {"list", "fanout", "recv"} => cli = "open" /\ closes = 0
    /\ (pc = "returned" /\ exitPath \in {"list", "empty", "fanin"}) =>
           cli = "closed" /\ closes = 1
    /\ (pc = "returned" /\ exitPath = "client") => cli = "none" /\ closes = 0

C11_Witness ==
    /\ ReturnedAfterFanOut
    /\ cli = "closed"
    /\ closes = 1

\* C12: every receive of the fan-in loop either adds one entry to errs and
\* leaves the result collection alone (the record carries an error), or
\* appends the record to the result collection and leaves errs alone; the
\* result collection never holds a record whose error is set.
C12_FanInRouting ==
    [][ (received' = received + 1) =>
          LET r == Head(ch) IN
            /\ r.Error # NoErr =>
                 /\ len(errs') = len(errs) + 1
                 /\ ContainerMetrics' = ContainerMetrics
            /\ r.Error = NoErr =>
                 /\ ContainerMetrics'.elems = Append(ContainerMetrics.elems, r)
                 /\ errs' = errs
            /\ \A n \in 1..len(ContainerMetrics') :
                 ContainerMetrics'.elems[n].Error = NoErr ]_vars

C12_Witness ==
    /\ len(errs) >= 1
    /\ len(ContainerMetrics) >= 1
    /\ received = 2

\* C13: while no collector has read more than one line, a collector that
\* is at its channel send can always complete it: the buffer is not full.
C13_SendNeverBlocks ==
    (~panicked /\ \A i \in CIds : Len(lines[i]) <= 1) =>
        \A i \in CIds :
            cpc[i] \in {"sendLine", "sendLast"} => ENABLED Send(i)

C13_Witness ==
    /\ ~panicked
    /\ K = 2
    /\ \A i \in CIds : Len(lines[i]) <= 1
    /\ cpc[2] = "sendLine"
    /\ Len(ch) = 1
    /\ pc = "fanout" \/ pc = "recv"

\* C14 (as claimed): no collector writes through a nil record pointer, and
\* every value on the channel is a non-nil record.
C14_NoNilWrite ==
    /\ \A i \in CIds : cpc[i] # "panic"
    /\ \A n \in 1..Len(ch) : ch[n].alloc

\* A line that fails to decode: invalid JSON, or a value of the wrong type.
DecodeFailures == {"syntax", "type"}

\* C15 (as claimed): when the line a collector has just read fails to
\* decode, the collector goes on to send one record for it, with the error
\* set and id and name unset, and then scans on.
C15_DecodeFailureRecord ==
    \A i \in CIds :
        ( /\ lines[i] # <<>>
          /\ lines[i][Len(lines[i])] \in DecodeFailures
          /\ ended[i] = "no" )
        => /\ cpc[i] \in {"sendLine", "scan"}
           /\ cpc[i] = "sendLine" =>
                /\ cptr[i].alloc
                /\ cptr[i].Error # NoErr
                /\ cptr[i].ID = EmptyStr
                /\ cptr[i].Name = EmptyStr
           /\ cpc[i] = "scan" => sends[i] = Len(lines[i])

\* C16 (as claimed): when the scan of a stream ends with a read error, the
\* collector sends exactly one further record, whose error is non-nil, and
\* then returns.
C16_ReadErrorRecord ==
    \A i \in CIds :
        ended[i] = "readerr" =>
            /\ cpc[i] \in {"sendLast", "done"}
            /\ cpc[i] = "sendLast" => cptr[i].alloc /\ cptr[i].Error # NoErr
            /\ cpc[i] = "done" => sends[i] = Len(lines[i]) + 1

\* C17: every record of the result collection, during fan-in and in the
\* returned pair, was built by the collector of a discovered container and
\* carries the id and the name passed to that collector.
C17_ResultIdentity ==
    /\ \A n \in 1..len(ContainerMetrics) :
         LET r == ContainerMetrics.elems[n] IN
           /\ r.src \in Discovered
           /\ r.ID = ID(r.src)
           /\ r.Name = Name(r.src)
    /\ \A n \in 1..len(ret.results) :
         LET r == ret.results.elems[n] IN
           /\ r.src \in Discovered
           /\ r.ID = ID(r.src)
           /\ r.Name = Name(r.src)

C17_Witness ==
    /\ ReturnedAfterFanOut
    /\ \E m, n \in 1..len(ret.results) :
         ret.results.elems[m].src # ret.results.elems[n].src

\* C18: two records of the same container stand in the result collection
\* in the order of the lines of its stream they were decoded from.
C18_PerContainerOrder ==
    \A m, n \in 1..len(ContainerMetrics) :
        ( /\ m < n
          /\ ContainerMetrics.elems[m].src = ContainerMetrics.elems[n].src )
        => ContainerMetrics.elems[m].line < ContainerMetrics.elems[n].line

C18_Witness ==
    \E m, n \in 1..len(ContainerMetrics) :
        /\ m < n
        /\ ContainerMetrics.elems[m].src = ContainerMetrics.elems[n].src

\* C19 (as claimed): no collector opens a stats stream or reads from its
\* stream once the client has been closed.
C19_NoUseAfterClose ==
    [][ \A i \in CIds :
          (opened'[i] # opened[i] \/ lines'[i] # lines[i]
             \/ ended'[i] # ended[i])
          => cli # "closed" ]_vars

\* C20: a round that returns from the fan-in loop discovered K > 0
\* containers and returns exactly K records, none with an error set, and a
\* nil error collection, whatever errs has gathered.
C20_FanInReturn ==
    ReturnedAfterFanOut =>
        /\ K > 0
        /\ len(ret.results) = K
        /\ \A n \in 1..len(ret.results) : ret.results.elems[n].Error = NoErr
        /\ ret.errs = NilSlice

C20_Witness ==
    /\ ReturnedAfterFanOut
    /\ len(errs) >= 1

====
